---------------------------- MODULE Spec2Model ----------------------------
(***************************************************************************)
(* PaddleViT, image_classification/SwinTransformer/load_pytorch_weights.py *)
(*                                                                         *)
(* torch_to_paddle_mapping builds the list of (torch name, paddle name)    *)
(* pairs from config.MODEL.STAGE_DEPTHS; convert collects the two models'  *)
(* named parameters and buffers, computes the missing-key lists and then   *)
(* copies every resolved pair with _set_value.                             *)
(*                                                                         *)
(* A dotted name is a sequence of its components:                          *)
(*   'layers.0.blocks.1.attn.qkv' is <<"layers","0","blocks","1","attn",   *)
(*   "qkv">>.  A tensor is [shape, data] with data in row-major order.     *)
(***************************************************************************)
EXTENDS Integers, Sequences, FiniteSets, TLC

VARIABLES
    depths,           \* config.MODEL.STAGE_DEPTHS
    mapping,          \* the list torch_to_paddle_mapping returned
    th_names,         \* th_params: keys in dict (insertion) order
    th_params,        \* th_params: key -> tensor
    pd_names,         \* pd_params: keys in dict (insertion) order
    pd_params,        \* pd_params: key -> tensor
    missing_keys_th,  \* the list missing_keys_th
    missing_keys_pd,  \* the list missing_keys_pd
    pc,               \* position in convert
    i,                \* number of mapping entries the copy loop has taken
    log,              \* the '**SET** th_name ... **TO** pd_name' lines printed
    run,              \* number of the current call of convert
    th_init,          \* history: th_params when convert was first called
    pd_init,          \* history: pd_params when convert was first called
    prev,             \* history: pd_params and Len(log) before the latest iteration
    pd_first,         \* history: pd_params when the first call ended
    model_count,      \* main: len(model_name_list)
    model_idx,        \* main: number of the model the loop is at (0 before the loop)
    main_pc,          \* main: position in main
    saved,            \* main: the models whose .pdparams file is written
    events,           \* history: what main did, as <<model, step>>
    order,            \* SpecOrder: the order in which the mapping's entries are taken
    ordered,          \* SpecOrder: the outcome of the copy loop taken in that order
    tensor_arg,       \* SpecInit: the tensor the caller passes to trunc_normal_
    tn_ret,           \* SpecInit: the tensor the local name 'tensor' is rebound to
    cutoff,           \* SpecInit: the arguments a and b of trunc_normal_
    tn_pc             \* SpecInit: position in trunc_normal_

\* the variables of main
main_vars == <<model_count, model_idx, main_pc, saved, events>>

\* the variables of the copy in another order
order_vars == <<order, ordered>>

\* the variables of the call of trunc_normal_
init_vars == <<tensor_arg, tn_ret, cutoff, tn_pc>>

\* the variables that convert and torch_to_paddle_mapping do not touch
others == <<main_vars, order_vars, init_vars>>

vars == <<depths, mapping, th_names, th_params, pd_names, pd_params,
          missing_keys_th, missing_keys_pd, pc, i, log, run, th_init,
          pd_init, prev, pd_first, others>>

---------------------------------------------------------------------------
(* Bounds of the model. *)

\* SpecMap: at most MapStages stages of at most MapDepth blocks each
MapStages == 3
MapDepth == 3
\* Spec: at most ConvStages stages with at most ConvBlocks blocks in all
ConvStages == 2
ConvBlocks == 1
\* a 2-D tensor of the source model is Rows x Cols (or Cols x Rows)
Rows == 2
Cols == 3
\* convert is called at most MaxRuns times on the same two models
MaxRuns == 2
\* SpecMain: model_name_list has at most MaxModels names
MaxModels == 3
\* SpecInit: the tensor passed to trunc_normal_ has at most MaxLen elements
MaxLen == 2
\* SpecInit: the values drawn are integers in -MaxValue..MaxValue
MaxValue == 3

---------------------------------------------------------------------------
(* Names. *)

Last(s) == s[Len(s)]

\* key.endswith('.weight'), key.endswith('.bias')
EndsWithDot(key, suffix) == Len(key) >= 2 /\ Last(key) = suffix

\* key[:-7], key[:-5]: the name without its last component
Strip(key) == SubSeq(key, 1, Len(key) - 1)

\* th_name.endswith('relative_position_bias_table')
EndsWithBiasTable(key) ==
    Len(key) >= 1 /\ Last(key) = "relative_position_bias_table"

\* f'{name}.weight', f'{name}.bias'
Dot(name, suffix) == Append(name, suffix)

---------------------------------------------------------------------------
(* torch_to_paddle_mapping *)

\* mutant: the entry of norm2 names the destination of norm1
layer_mapping_norm2_to_norm1(th_b_prefix, pp_b_prefix) ==
    << <<th_b_prefix \o <<"norm1">>, pp_b_prefix \o <<"norm1">> >>,
       <<th_b_prefix \o <<"attn", "relative_position_bias_table">>,
         pp_b_prefix \o <<"attn", "relative_position_bias_table">> >>,
       <<th_b_prefix \o <<"attn", "qkv">>, pp_b_prefix \o <<"attn", "qkv">> >>,
       <<th_b_prefix \o <<"attn", "proj">>, pp_b_prefix \o <<"attn", "proj">> >>,
       <<th_b_prefix \o <<"norm2">>, pp_b_prefix \o <<"norm1">> >>,
       <<th_b_prefix \o <<"mlp", "fc1">>, pp_b_prefix \o <<"mlp", "fc1">> >>,
       <<th_b_prefix \o <<"mlp", "fc2">>, pp_b_prefix \o <<"mlp", "fc2">> >> >>

\* the seven entries of one block
layer_mapping(th_b_prefix, pp_b_prefix) ==
    << <<th_b_prefix \o <<"norm1">>, pp_b_prefix \o <<"norm1">> >>,
       <<th_b_prefix \o <<"attn", "relative_position_bias_table">>,
         pp_b_prefix \o <<"attn", "relative_position_bias_table">> >>,
       <<th_b_prefix \o <<"attn", "qkv">>, pp_b_prefix \o <<"attn", "qkv">> >>,
       <<th_b_prefix \o <<"attn", "proj">>, pp_b_prefix \o <<"attn", "proj">> >>,
       <<th_b_prefix \o <<"norm2">>, pp_b_prefix \o <<"norm2">> >>,
       <<th_b_prefix \o <<"mlp", "fc1">>, pp_b_prefix \o <<"mlp", "fc1">> >>,
       <<th_b_prefix \o <<"mlp", "fc2">>, pp_b_prefix \o <<"mlp", "fc2">> >> >>

\* for block_idx in range(depths[stage_idx]): mapping.extend(layer_mapping)
RECURSIVE block_loop(_, _, _)
block_loop(stage_idx, block_idx, depth) ==
    IF block_idx >= depth THEN <<>>
    ELSE LET pp_s_prefix == <<"stages", ToString(stage_idx), "blocks">>
             th_s_prefix == <<"layers", ToString(stage_idx), "blocks">>
             th_b_prefix == th_s_prefix \o <<ToString(block_idx)>>
             pp_b_prefix == pp_s_prefix \o <<ToString(block_idx)>>
         IN  layer_mapping(th_b_prefix, pp_b_prefix)
                 \o block_loop(stage_idx, block_idx + 1, depth)

\* mutant: the downsample entries are emitted for the last stage as well
downsample_mapping_every_stage(stage_idx, num_stages) ==
    IF stage_idx < num_stages
    THEN << << <<"layers", ToString(stage_idx), "downsample", "reduction", "weight">>,
               <<"stages", ToString(stage_idx), "downsample", "reduction", "weight">> >>,
            << <<"layers", ToString(stage_idx), "downsample", "norm">>,
               <<"stages", ToString(stage_idx), "downsample", "norm">> >> >>
    ELSE <<>>

\* mutant: the downsample entries with source and destination prefix swapped
downsample_mapping_swapped(stage_idx, num_stages) ==
    IF stage_idx < num_stages - 1
    THEN << << <<"stages", ToString(stage_idx), "downsample", "reduction", "weight">>,
               <<"layers", ToString(stage_idx), "downsample", "reduction", "weight">> >>,
            << <<"stages", ToString(stage_idx), "downsample", "norm">>,
               <<"layers", ToString(stage_idx), "downsample", "norm">> >> >>
    ELSE <<>>

\* stage downsample: last stage does not have downsample ops
downsample_mapping(stage_idx, num_stages) ==
    IF stage_idx < num_stages - 1
    THEN << << <<"layers", ToString(stage_idx), "downsample", "reduction", "weight">>,
               <<"stages", ToString(stage_idx), "downsample", "reduction", "weight">> >>,
            << <<"layers", ToString(stage_idx), "downsample", "norm">>,
               <<"stages", ToString(stage_idx), "downsample", "norm">> >> >>
    ELSE <<>>

\* for stage_idx in range(num_stages)
RECURSIVE stage_loop(_, _)
stage_loop(stage_depths, stage_idx) ==
    LET num_stages == Len(stage_depths) IN
    IF stage_idx >= num_stages THEN <<>>
    ELSE block_loop(stage_idx, 0, stage_depths[stage_idx + 1])
             \o downsample_mapping(stage_idx, num_stages)
             \o stage_loop(stage_depths, stage_idx + 1)

\* mutant: the entry of the final norm is emitted a second time after head
torch_to_paddle_mapping_norm_twice(stage_depths) ==
    << << <<"patch_embed", "proj">>, <<"patch_embedding", "patch_embed">> >>,
       << <<"patch_embed", "norm">>, <<"patch_embedding", "norm">> >> >>
    \o stage_loop(stage_depths, 0)
    \o << << <<"norm">>, <<"norm">> >>,
          << <<"head">>, <<"fc">> >>,
          << <<"norm">>, <<"norm">> >> >>

torch_to_paddle_mapping(stage_depths) ==
    << << <<"patch_embed", "proj">>, <<"patch_embedding", "patch_embed">> >>,
       << <<"patch_embed", "norm">>, <<"patch_embedding", "norm">> >> >>
    \o stage_loop(stage_depths, 0)
    \o << << <<"norm">>, <<"norm">> >>,
          << <<"head">>, <<"fc">> >> >>

---------------------------------------------------------------------------
(* Tensors and numpy's transpose. *)

RECURSIVE Size(_)
Size(shape) == IF shape = <<>> THEN 1 ELSE Head(shape) * Size(Tail(shape))

\* mutant: the two axes are swapped in the shape only (a reshape)
transpose_reshape(value) ==
    [shape |-> <<value.shape[2], value.shape[1]>>, data |-> value.data]

\* value.transpose((1, 0)) of a 2-D array: result[j][i] = value[i][j]
transpose(value) ==
    LET a == value.shape[1]
        b == value.shape[2]
    IN  [shape |-> <<b, a>>,
         data  |-> [p \in 1..(a * b) |->
                      LET j == ((p - 1) \div a) + 1
                          ii == ((p - 1) % a) + 1
                      IN  value.data[(ii - 1) * b + j]]]

---------------------------------------------------------------------------
(* _set_value and the copy loop's body.  A state of the copy is            *)
(* [ok, params, log]: ok is FALSE once a call has raised.                  *)

\* mutant: the new value is added to the old one instead of replacing it
set_value_accumulate(st, pd_name, value) ==
    IF st.params[pd_name].shape = value.shape
    THEN [st EXCEPT !.params[pd_name] =
             [shape |-> value.shape,
              data  |-> [p \in 1..Len(value.data) |-> @.data[p] + value.data[p]]]]
    ELSE [st EXCEPT !.ok = FALSE]

\* pd_params[pd_name].set_value(value): paddle writes the array into the
\* tensor in place and rejects an array of another shape
set_value(st, pd_name, value) ==
    IF st.params[pd_name].shape = value.shape
    THEN [st EXCEPT !.params[pd_name] = value]
    ELSE [st EXCEPT !.ok = FALSE]

_set_value(st, th, th_name, pd_name, do_transpose) ==
    LET value0  == th[th_name]
        value   == IF Len(value0.shape) = 2 /\ do_transpose
                   THEN transpose(value0) ELSE value0
        printed == [st EXCEPT !.log = Append(@, <<th_name, pd_name>>)]
    IN  set_value(printed, pd_name, value)

\* mutant: the bias table is transposed like every other 2-D tensor
direct_copy_always_transpose(st, th, th_name, pd_name) ==
    _set_value(st, th, th_name, pd_name, TRUE)

\* the branch for names that are keys themselves (nn.Parameters)
direct_copy(st, th, th_name, pd_name) ==
    IF EndsWithBiasTable(th_name)
    THEN _set_value(st, th, th_name, pd_name, FALSE)
    ELSE _set_value(st, th, th_name, pd_name, TRUE)

\* mutant: the .weight copy is made without looking for the keys (KeyError)
weight_copy_unguarded(st, th, th_name, pd_name) ==
    IF Dot(th_name, "weight") \in DOMAIN th
        /\ Dot(pd_name, "weight") \in DOMAIN st.params
    THEN _set_value(st, th, Dot(th_name, "weight"), Dot(pd_name, "weight"), TRUE)
    ELSE [st EXCEPT !.ok = FALSE]

weight_copy(st, th, th_name, pd_name) ==
    IF Dot(th_name, "weight") \in DOMAIN th
        /\ Dot(pd_name, "weight") \in DOMAIN st.params
    THEN _set_value(st, th, Dot(th_name, "weight"), Dot(pd_name, "weight"), TRUE)
    ELSE st

bias_copy(st, th, th_name, pd_name) ==
    IF Dot(th_name, "bias") \in DOMAIN th
        /\ Dot(pd_name, "bias") \in DOMAIN st.params
    THEN _set_value(st, th, Dot(th_name, "bias"), Dot(pd_name, "bias"), TRUE)
    ELSE st

\* mutant: elif for the second if: the bias is copied only when the weight is not
copy_entry_elif(st, th, th_name, pd_name) ==
    IF th_name \in DOMAIN th /\ pd_name \in DOMAIN st.params
    THEN direct_copy(st, th, th_name, pd_name)
    ELSE IF Dot(th_name, "weight") \in DOMAIN th
             /\ Dot(pd_name, "weight") \in DOMAIN st.params
         THEN weight_copy(st, th, th_name, pd_name)
         ELSE bias_copy(st, th, th_name, pd_name)

\* mutant: no else: the .weight and .bias copies are also made after a direct copy
copy_entry_no_else(st, th, th_name, pd_name) ==
    LET d == IF th_name \in DOMAIN th /\ pd_name \in DOMAIN st.params
             THEN direct_copy(st, th, th_name, pd_name) ELSE st
        w == IF d.ok THEN weight_copy(d, th, th_name, pd_name) ELSE d
    IN  IF w.ok THEN bias_copy(w, th, th_name, pd_name) ELSE w

\* the body of 'for th_name, pd_name in mapping'
copy_entry(st, th, th_name, pd_name) ==
    IF th_name \in DOMAIN th /\ pd_name \in DOMAIN st.params
    THEN direct_copy(st, th, th_name, pd_name)
    ELSE LET w == weight_copy(st, th, th_name, pd_name)
         IN  IF w.ok THEN bias_copy(w, th, th_name, pd_name) ELSE w

---------------------------------------------------------------------------
(* The missing-key loops. *)

th_keys(m) == {m[k][1] : k \in 1..Len(m)}
pd_keys(m) == {m[k][2] : k \in 1..Len(m)}

\* the body of 'for key in th_params': whether key is appended
th_missing(key, keys) ==
    /\ key \notin keys
    /\ \/ EndsWithDot(key, "weight") /\ Strip(key) \notin keys
       \/ EndsWithDot(key, "bias") /\ Strip(key) \notin keys

\* the body of 'for key in pd_params': whether key is appended
pd_missing(key, keys) ==
    /\ key \notin keys
    /\ ~(EndsWithDot(key, "weight") /\ Strip(key) \in keys)
    /\ ~(EndsWithDot(key, "bias") /\ Strip(key) \in keys)

RECURSIVE Filter(_, _, _)
Filter(names, keys, side) ==
    IF names = <<>> THEN <<>>
    ELSE LET key  == Head(names)
             take == IF side = 1 THEN th_missing(key, keys) ELSE pd_missing(key, keys)
         IN  (IF take THEN <<key>> ELSE <<>>) \o Filter(Tail(names), keys, side)

---------------------------------------------------------------------------
(* The two models handed to convert: named_parameters() and                *)
(* named_buffers() of torch_model and paddle_model.  Every mapping entry   *)
(* has, on each side, some of the keys name, name.weight and name.bias.    *)
(* A layout is either the one of the Swin models (the bias table and the   *)
(* reduction weight are parameters, every other entry is a layer with a    *)
(* weight and a bias, the patch embedding's norm being optional) or the    *)
(* same set of keys for every entry.                                       *)

Suffixes == {"direct", "weight", "bias"}

Key(name, sfx) == IF sfx = "direct" THEN name ELSE Dot(name, sfx)

SfxNo(sfx) == IF sfx = "direct" THEN 1 ELSE IF sfx = "weight" THEN 2 ELSE 3

SwinPresence(th_name) ==
    IF EndsWithBiasTable(th_name) \/ Last(th_name) = "weight"
    THEN {"direct"} ELSE {"weight", "bias"}

\* the patch embedding's norm has no parameters in a model built without it
Presence(layout, th_name) ==
    IF ~layout.swin THEN layout.present
    ELSE IF th_name = <<"patch_embed", "norm">> /\ ~layout.patch_norm THEN {}
    ELSE SwinPresence(th_name)

IsNorm(th_name) == Last(th_name) \in {"norm", "norm1", "norm2"}

\* torch shapes: a LayerNorm weight and every bias are 1-D, the patch
\* embedding's convolution weight is 4-D, every other tensor is 2-D
ThShape(th_name, sfx) ==
    IF sfx = "bias" THEN <<Cols>>
    ELSE IF sfx = "direct" THEN <<Rows, Cols>>
    ELSE IF IsNorm(th_name) THEN <<Cols>>
    ELSE IF th_name = <<"patch_embed", "proj">> THEN <<Cols, Rows, 1, 1>>
    ELSE <<Cols, Rows>>

\* paddle shapes: with convention "paddle" a 2-D weight is stored the other
\* way round (and the bias table the same way round); with convention
\* "torch" every tensor has the torch shape
PdShape(th_name, sfx, convention) ==
    LET s == ThShape(th_name, sfx) IN
    IF convention = "paddle" /\ Len(s) = 2
           /\ ~(sfx = "direct" /\ EndsWithBiasTable(th_name))
    THEN <<s[2], s[1]>> ELSE s

ThTensor(k, th_name, sfx) ==
    LET s == ThShape(th_name, sfx)
    IN  [shape |-> s, data |-> [p \in 1..Size(s) |-> 100 * k + 10 * SfxNo(sfx) + p]]

PdTensor(th_name, sfx, convention) ==
    LET s == PdShape(th_name, sfx, convention)
    IN  [shape |-> s, data |-> [p \in 1..Size(s) |-> 0 - p]]

\* keys no mapping entry names: a buffer and the parameters of another layer
ThExtraNames ==
    << <<"layers", "0", "blocks", "0", "attn", "relative_position_index">>,
       <<"aux", "weight">> >>
PdExtraNames ==
    << <<"stages", "0", "blocks", "0", "attn", "relative_position_index">>,
       <<"foo", "weight">>, <<"foo", "bias">> >>

ExtraTensor(side) ==
    [shape |-> <<Cols>>,
     data  |-> [p \in 1..Cols |-> IF side = 1 THEN 900 + p ELSE 0 - p]]

EntryNames(name, present) ==
    (IF "direct" \in present THEN <<name>> ELSE <<>>)
    \o (IF "weight" \in present THEN <<Dot(name, "weight")>> ELSE <<>>)
    \o (IF "bias" \in present THEN <<Dot(name, "bias")>> ELSE <<>>)

\* the keys of one model in dict order
RECURSIVE ModelNames(_, _, _, _)
ModelNames(m, side, layout, k) ==
    IF k > Len(m) THEN (IF side = 1 THEN ThExtraNames ELSE PdExtraNames)
    ELSE EntryNames(m[k][side], Presence(layout, m[k][1]))
             \o ModelNames(m, side, layout, k + 1)

\* the tensors of one model
RECURSIVE ModelParams(_, _, _, _, _)
ModelParams(m, side, layout, convention, k) ==
    IF k > Len(m)
    THEN LET extra == IF side = 1 THEN ThExtraNames ELSE PdExtraNames
         IN  [key \in {extra[n] : n \in 1..Len(extra)} |-> ExtraTensor(side)]
    ELSE LET present == Presence(layout, m[k][1])
             here == [key \in {Key(m[k][side], sfx) : sfx \in present} |->
                        LET sfx == CHOOSE x \in present : Key(m[k][side], x) = key
                        IN  IF side = 1 THEN ThTensor(k, m[k][1], sfx)
                            ELSE PdTensor(m[k][1], sfx, convention)]
         IN  here @@ ModelParams(m, side, layout, convention, k + 1)

Layouts ==
    {[swin |-> TRUE, present |-> {}, patch_norm |-> b] : b \in BOOLEAN}
        \cup {[swin |-> FALSE, present |-> P, patch_norm |-> TRUE] :
                  P \in SUBSET Suffixes}

Depths(stages, depth) == UNION {[1..n -> 0..depth] : n \in 0..stages}

RECURSIVE Sum(_)
Sum(s) == IF s = <<>> THEN 0 ELSE Head(s) + Sum(Tail(s))

NoParams == [key \in {} |-> 0]

---------------------------------------------------------------------------
(* convert *)

\* main is not running
MainIdle ==
    /\ model_count = 0
    /\ model_idx = 0
    /\ main_pc = "idle"
    /\ saved = {}
    /\ events = <<>>

\* no copy in another order is made
OrderIdle ==
    /\ order = <<>>
    /\ ordered = [done |-> FALSE, ok |-> TRUE, params |-> <<>>]

\* trunc_normal_ is not called
TruncIdle ==
    /\ tensor_arg = <<>>
    /\ tn_ret = <<>>
    /\ cutoff = [a |-> 0, b |-> 0]
    /\ tn_pc = "idle"

OthersIdle == MainIdle /\ OrderIdle /\ TruncIdle

Init ==
    /\ OthersIdle
    /\ depths \in {d \in Depths(ConvStages, ConvBlocks) : Sum(d) <= ConvBlocks}
    /\ \E tl \in Layouts, pl \in Layouts, convention \in {"paddle", "torch"},
          m \in {torch_to_paddle_mapping(depths)} :
         /\ tl.swin = pl.swin
         /\ th_names = ModelNames(m, 1, tl, 1)
         /\ th_params = ModelParams(m, 1, tl, convention, 1)
         /\ pd_names = ModelNames(m, 2, pl, 1)
         /\ pd_params = ModelParams(m, 2, pl, convention, 1)
    /\ mapping = <<>>
    /\ missing_keys_th = <<>>
    /\ missing_keys_pd = <<>>
    /\ pc = "start"
    /\ i = 0
    /\ log = <<>>
    /\ run = 1
    /\ th_init = th_params
    /\ pd_init = pd_params
    /\ prev = [params |-> pd_params, nlog |-> 0]
    /\ pd_first = NoParams

\* 1. get paddle and torch model parameters; 2. get name mapping pairs
GetMapping ==
    /\ pc = "start"
    /\ mapping' = torch_to_paddle_mapping(depths)
    /\ missing_keys_th' = <<>>
    /\ missing_keys_pd' = <<>>
    /\ pc' = "scan_th"
    /\ UNCHANGED <<depths, th_names, th_params, pd_names, pd_params, i, log,
                   run, th_init, pd_init, prev, pd_first>>
    /\ UNCHANGED others

\* for key in th_params
ScanTorchKeys ==
    /\ pc = "scan_th"
    /\ missing_keys_th' = missing_keys_th \o Filter(th_names, th_keys(mapping), 1)
    /\ pc' = "scan_pd"
    /\ UNCHANGED <<depths, mapping, th_names, th_params, pd_names, pd_params,
                   missing_keys_pd, i, log, run, th_init, pd_init, prev, pd_first>>
    /\ UNCHANGED others

\* for key in pd_params: the keys found are appended to missing_keys_th
ScanPaddleKeys ==
    /\ pc = "scan_pd"
    /\ missing_keys_th' = missing_keys_th \o Filter(pd_names, pd_keys(mapping), 2)
    /\ pc' = "copy"
    /\ i' = 0
    /\ UNCHANGED <<depths, mapping, th_names, th_params, pd_names, pd_params,
                   missing_keys_pd, log, run, th_init, pd_init, prev, pd_first>>
    /\ UNCHANGED others

\* 3. one iteration of 'for th_name, pd_name in mapping'; a rejected
\* set_value ends convert with the exception
CopyEntry ==
    /\ pc = "copy"
    /\ i < Len(mapping)
    /\ LET st == copy_entry([ok |-> TRUE, params |-> pd_params, log |-> log],
                            th_params, mapping[i + 1][1], mapping[i + 1][2])
       IN  /\ pd_params' = st.params
           /\ log' = st.log
           /\ pc' = IF st.ok THEN "copy" ELSE "error"
           /\ pd_first' = IF ~st.ok /\ run = 1 THEN st.params ELSE pd_first
    /\ i' = i + 1
    /\ prev' = [params |-> pd_params, nlog |-> Len(log)]
    /\ UNCHANGED <<depths, mapping, th_names, th_params, pd_names,
                   missing_keys_th, missing_keys_pd, run, th_init, pd_init>>
    /\ UNCHANGED others

\* return paddle_model
Return ==
    /\ pc = "copy"
    /\ i = Len(mapping)
    /\ pc' = "done"
    /\ pd_first' = IF run = 1 THEN pd_params ELSE pd_first
    /\ UNCHANGED <<depths, mapping, th_names, th_params, pd_names, pd_params,
                   missing_keys_th, missing_keys_pd, i, log, run, th_init, pd_init, prev>>
    /\ UNCHANGED others

\* convert is called again with the same models and config
ConvertAgain ==
    /\ pc \in {"done", "error"}
    /\ run < MaxRuns
    /\ run' = run + 1
    /\ pc' = "start"
    /\ i' = 0
    /\ UNCHANGED <<depths, mapping, th_names, th_params, pd_names, pd_params,
                   missing_keys_th, missing_keys_pd, log, th_init, pd_init, prev, pd_first>>
    /\ UNCHANGED others

Next ==
    \/ GetMapping
    \/ ScanTorchKeys
    \/ ScanPaddleKeys
    \/ CopyEntry
    \/ Return
    \/ ConvertAgain

Spec == Init /\ [][Next]_vars

---------------------------------------------------------------------------
(* torch_to_paddle_mapping on its own, for every STAGE_DEPTHS of the bounds *)
(* and for the depths of the Swin configurations.                          *)

SwinDepths == {<<2, 2, 6, 2>>, <<2, 2, 18, 2>>}

InitMap ==
    /\ OthersIdle
    /\ depths \in Depths(MapStages, MapDepth) \cup SwinDepths
    /\ mapping = <<>>
    /\ th_names = <<>>
    /\ th_params = NoParams
    /\ pd_names = <<>>
    /\ pd_params = NoParams
    /\ missing_keys_th = <<>>
    /\ missing_keys_pd = <<>>
    /\ pc = "config"
    /\ i = 0
    /\ log = <<>>
    /\ run = 1
    /\ th_init = NoParams
    /\ pd_init = NoParams
    /\ prev = [params |-> NoParams, nlog |-> 0]
    /\ pd_first = NoParams

CallMapping ==
    /\ pc = "config"
    /\ mapping' = torch_to_paddle_mapping(depths)
    /\ pc' = "mapped"
    /\ UNCHANGED <<depths, th_names, th_params, pd_names, pd_params,
                   missing_keys_th, missing_keys_pd, i, log, run, th_init, pd_init,
                   prev, pd_first>>
    /\ UNCHANGED others

NextMap == CallMapping

SpecMap == InitMap /\ [][NextMap]_vars

---------------------------------------------------------------------------
(* main: for every name of model_name_list the two models are built,       *)
(* convert is called, the two outputs are compared and the paddle weights  *)
(* are saved.  An exception (of convert, or the AssertionError of the      *)
(* comparison) leaves main.                                                *)

\* 'for th_name, pd_name in mapping' from entry k on, up to an exception
RECURSIVE copy_loop(_, _, _, _)
copy_loop(m, k, th, st) ==
    IF k > Len(m) \/ ~st.ok THEN st
    ELSE copy_loop(m, k + 1, th,
                   [copy_entry(st, th, m[k][1], m[k][2]) EXCEPT !.taken = k])

InitMain ==
    /\ OrderIdle
    /\ TruncIdle
    /\ model_count \in 1..MaxModels
    /\ model_idx = 0
    /\ main_pc = "loop"
    /\ saved = {}
    /\ events = <<>>
    /\ depths = <<>>
    /\ mapping = <<>>
    /\ th_names = <<>>
    /\ th_params = NoParams
    /\ pd_names = <<>>
    /\ pd_params = NoParams
    /\ missing_keys_th = <<>>
    /\ missing_keys_pd = <<>>
    /\ pc = "start"
    /\ i = 0
    /\ log = <<>>
    /\ run = 1
    /\ th_init = NoParams
    /\ pd_init = NoParams
    /\ prev = [params |-> NoParams, nlog |-> 0]
    /\ pd_first = NoParams

\* the next model_name: get_config, build_model, timm.create_model
BuildModels ==
    /\ main_pc = "loop"
    /\ model_idx < model_count
    /\ model_idx' = model_idx + 1
    /\ \E d \in {x \in Depths(ConvStages, ConvBlocks) : Sum(x) <= ConvBlocks} :
       \E m \in {torch_to_paddle_mapping(d)}, convention \in {"paddle", "torch"},
          tl \in {l \in Layouts : l.swin}, pl \in {l \in Layouts : l.swin} :
         /\ depths' = d
         /\ th_names' = ModelNames(m, 1, tl, 1)
         /\ th_params' = ModelParams(m, 1, tl, convention, 1)
         /\ pd_names' = ModelNames(m, 2, pl, 1)
         /\ pd_params' = ModelParams(m, 2, pl, convention, 1)
    /\ th_init' = th_params'
    /\ pd_init' = pd_params'
    /\ mapping' = <<>>
    /\ missing_keys_th' = <<>>
    /\ missing_keys_pd' = <<>>
    /\ i' = 0
    /\ log' = <<>>
    /\ prev' = [params |-> pd_params', nlog |-> 0]
    /\ pc' = "start"
    /\ main_pc' = "built"
    /\ UNCHANGED <<run, pd_first, model_count, saved, events>>
    /\ UNCHANGED <<order_vars, init_vars>>

\* paddle_model = convert(torch_model, paddle_model, model_name, config)
CallConvert ==
    /\ main_pc = "built"
    /\ LET m  == torch_to_paddle_mapping(depths)
           st == copy_loop(m, 1, th_params,
                           [ok |-> TRUE, params |-> pd_params, log |-> log, taken |-> 0])
       IN  /\ mapping' = m
           /\ missing_keys_th' = Filter(th_names, th_keys(m), 1)
                                     \o Filter(pd_names, pd_keys(m), 2)
           /\ missing_keys_pd' = <<>>
           /\ pd_params' = st.params
           /\ log' = st.log
           /\ i' = st.taken
           /\ pc' = IF st.ok THEN "done" ELSE "error"
           /\ main_pc' = IF st.ok THEN "converted" ELSE "aborted"
    /\ prev' = [params |-> pd_params, nlog |-> Len(log)]
    /\ events' = Append(events, <<model_idx, "convert">>)
    /\ UNCHANGED <<depths, th_names, th_params, pd_names, run, th_init, pd_init,
                   pd_first, model_count, model_idx, saved>>
    /\ UNCHANGED <<order_vars, init_vars>>

\* mutant: the comparison is printed only, a difference does not stop main
CheckCorrectness_printed ==
    /\ main_pc = "converted"
    /\ \E close \in BOOLEAN :
         events' = Append(events, <<model_idx, IF close THEN "check_ok" ELSE "check_failed">>)
    /\ main_pc' = "checked"
    /\ UNCHANGED <<depths, mapping, th_names, th_params, pd_names, pd_params,
                   missing_keys_th, missing_keys_pd, pc, i, log, run, th_init,
                   pd_init, prev, pd_first, model_count, model_idx, saved>>
    /\ UNCHANGED <<order_vars, init_vars>>

\* check correctness: assert np.allclose(out_torch, out_paddle, atol = 1e-5);
\* the outputs are those of the two frameworks' forward passes
CheckCorrectness ==
    /\ main_pc = "converted"
    /\ \E close \in BOOLEAN :
         /\ events' = Append(events, <<model_idx, IF close THEN "check_ok" ELSE "check_failed">>)
         /\ main_pc' = IF close THEN "checked" ELSE "aborted"
    /\ UNCHANGED <<depths, mapping, th_names, th_params, pd_names, pd_params,
                   missing_keys_th, missing_keys_pd, pc, i, log, run, th_init,
                   pd_init, prev, pd_first, model_count, model_idx, saved>>
    /\ UNCHANGED <<order_vars, init_vars>>

\* save weights for paddle model; the iteration ends and its models, which
\* the next iteration replaces, are dropped
SaveWeights ==
    /\ main_pc = "checked"
    /\ saved' = saved \cup {model_idx}
    /\ events' = Append(events, <<model_idx, "save">>)
    /\ main_pc' = "loop"
    /\ depths' = <<>>
    /\ mapping' = <<>>
    /\ th_names' = <<>>
    /\ th_params' = NoParams
    /\ pd_names' = <<>>
    /\ pd_params' = NoParams
    /\ missing_keys_th' = <<>>
    /\ missing_keys_pd' = <<>>
    /\ pc' = "start"
    /\ i' = 0
    /\ log' = <<>>
    /\ th_init' = NoParams
    /\ pd_init' = NoParams
    /\ prev' = [params |-> NoParams, nlog |-> 0]
    /\ UNCHANGED <<run, pd_first, model_count, model_idx>>
    /\ UNCHANGED <<order_vars, init_vars>>

\* print('all done')
AllDone ==
    /\ main_pc = "loop"
    /\ model_idx = model_count
    /\ main_pc' = "all_done"
    /\ UNCHANGED <<depths, mapping, th_names, th_params, pd_names, pd_params,
                   missing_keys_th, missing_keys_pd, pc, i, log, run, th_init,
                   pd_init, prev, pd_first, model_count, model_idx, saved, events>>
    /\ UNCHANGED <<order_vars, init_vars>>

NextMain ==
    \/ BuildModels
    \/ CallConvert
    \/ CheckCorrectness
    \/ SaveWeights
    \/ AllDone

SpecMain == InitMain /\ [][NextMain]_vars

---------------------------------------------------------------------------
(* The copy loop over the mapping's entries taken in another order: convert *)
(* is run on the two models, and the loop is run on the same source and a  *)
(* destination model as it was, with the entries of the mapping in order   *)
(* 'order'.                                                                *)

\* the entries of m in the order given
Permute(m, ord) == [k \in 1..Len(m) |-> m[ord[k]]]

\* the orders tried: the entries from r + 1 on first (the first entry last,
\* the two halves exchanged), and the reverse
Rotation(n, r) == [k \in 1..n |-> ((k + r - 1) % n) + 1]
Reverse(n) == [k \in 1..n |-> n + 1 - k]
Orders(n) == {Rotation(n, r) : r \in {1, n \div 2}} \cup {Reverse(n)}

InitOrder ==
    /\ MainIdle
    /\ TruncIdle
    /\ depths \in {d \in Depths(ConvStages, ConvBlocks) : Sum(d) <= ConvBlocks}
    /\ \E tl \in Layouts, pl \in Layouts, convention \in {"paddle", "torch"},
          m \in {torch_to_paddle_mapping(depths)} :
         /\ tl.swin = pl.swin
         /\ th_names = ModelNames(m, 1, tl, 1)
         /\ th_params = ModelParams(m, 1, tl, convention, 1)
         /\ pd_names = ModelNames(m, 2, pl, 1)
         /\ pd_params = ModelParams(m, 2, pl, convention, 1)
         /\ order \in Orders(Len(m))
    /\ ordered = [done |-> FALSE, ok |-> TRUE, params |-> <<>>]
    /\ mapping = <<>>
    /\ missing_keys_th = <<>>
    /\ missing_keys_pd = <<>>
    /\ pc = "start"
    /\ i = 0
    /\ log = <<>>
    /\ run = 1
    /\ th_init = th_params
    /\ pd_init = pd_params
    /\ prev = [params |-> pd_params, nlog |-> 0]
    /\ pd_first = NoParams

\* convert(torch_model, paddle_model, model_name, config)
ConvertInOrder ==
    /\ pc = "start"
    /\ LET m  == torch_to_paddle_mapping(depths)
           st == copy_loop(m, 1, th_params,
                           [ok |-> TRUE, params |-> pd_params, log |-> log, taken |-> 0])
       IN  /\ mapping' = m
           /\ missing_keys_th' = Filter(th_names, th_keys(m), 1)
                                     \o Filter(pd_names, pd_keys(m), 2)
           /\ missing_keys_pd' = <<>>
           /\ pd_params' = st.params
           /\ log' = st.log
           /\ i' = st.taken
           /\ pc' = IF st.ok THEN "done" ELSE "error"
    /\ prev' = [params |-> pd_params, nlog |-> Len(log)]
    /\ UNCHANGED <<depths, th_names, th_params, pd_names, run, th_init, pd_init,
                   pd_first, order, ordered>>
    /\ UNCHANGED <<main_vars, init_vars>>

\* the copy loop on the same source and the destination as it was, with the
\* mapping's entries in order 'order'
CopyPermuted ==
    /\ pc \in {"done", "error"}
    /\ ~ordered.done
    /\ LET m  == Permute(torch_to_paddle_mapping(depths), order)
           st == copy_loop(m, 1, th_init,
                           [ok |-> TRUE, params |-> pd_init, log |-> <<>>, taken |-> 0])
       IN  ordered' = [done |-> TRUE, ok |-> st.ok, params |-> st.params]
    /\ UNCHANGED <<depths, mapping, th_names, th_params, pd_names, pd_params,
                   missing_keys_th, missing_keys_pd, pc, i, log, run, th_init,
                   pd_init, prev, pd_first, order>>
    /\ UNCHANGED <<main_vars, init_vars>>

NextOrder ==
    \/ ConvertInOrder
    \/ CopyPermuted

SpecOrder == InitOrder /\ [][NextOrder]_vars

---------------------------------------------------------------------------
(* trunc_normal_ of trans2seg_transformer.py, called on a tensor of the    *)
(* caller (cls_token, pos_embed, the weight of a Linear layer).            *)

\* the minimum and maximum cutoff values a, b: the defaults and a narrower pair
Cutoffs == {[a |-> -2, b |-> 2], [a |-> -1, b |-> 1]}

\* the contents of the caller's tensor before the call: each element is 0.0
\* (cls_token is created with Constant(0.0)) or a value outside of [a, b]
OldValues == {0, MaxValue}

\* tensor.clip(min=a, max=b), elementwise, as a new tensor
clip(tensor, a, b) ==
    [k \in 1..Len(tensor) |->
        IF tensor[k] < a THEN a ELSE IF tensor[k] > b THEN b ELSE tensor[k]]

\* the caller is about to evaluate trunc_normal_(tensor_arg, a=cutoff.a, b=cutoff.b)
InitTrunc ==
    /\ MainIdle
    /\ OrderIdle
    /\ \E n \in 1..MaxLen : tensor_arg \in [1..n -> OldValues]
    /\ tn_ret = <<>>
    /\ cutoff \in Cutoffs
    /\ tn_pc = "called"
    /\ depths = <<>>
    /\ mapping = <<>>
    /\ th_names = <<>>
    /\ th_params = NoParams
    /\ pd_names = <<>>
    /\ pd_params = NoParams
    /\ missing_keys_th = <<>>
    /\ missing_keys_pd = <<>>
    /\ pc = "start"
    /\ i = 0
    /\ log = <<>>
    /\ run = 1
    /\ th_init = NoParams
    /\ pd_init = NoParams
    /\ prev = [params |-> NoParams, nlog |-> 0]
    /\ pd_first = NoParams

\* tensor=paddle.uniform(shape=tensor.shape, ...); tensor=tensor.erf();
\* tensor=tensor.multiply(...); tensor=tensor.add(...): the local name is
\* bound to a new tensor of the argument's shape holding random values; the
\* tensor the caller passed is only read for its shape
DrawValues ==
    /\ tn_pc = "called"
    /\ tn_ret' \in [1..Len(tensor_arg) -> (-MaxValue)..MaxValue]
    /\ tn_pc' = "drawn"
    /\ UNCHANGED <<tensor_arg, cutoff>>
    /\ UNCHANGED <<depths, mapping, th_names, th_params, pd_names, pd_params,
                   missing_keys_th, missing_keys_pd, pc, i, log, run, th_init,
                   pd_init, prev, pd_first>>
    /\ UNCHANGED <<main_vars, order_vars>>

\* tensor=tensor.clip(min=a, max=b); return tensor
\* the callers drop the value returned
ClipAndReturn ==
    /\ tn_pc = "drawn"
    /\ tn_ret' = clip(tn_ret, cutoff.a, cutoff.b)
    /\ tn_pc' = "returned"
    /\ UNCHANGED <<tensor_arg, cutoff>>
    /\ UNCHANGED <<depths, mapping, th_names, th_params, pd_names, pd_params,
                   missing_keys_th, missing_keys_pd, pc, i, log, run, th_init,
                   pd_init, prev, pd_first>>
    /\ UNCHANGED <<main_vars, order_vars>>

NextTrunc ==
    \/ DrawValues
    \/ ClipAndReturn

SpecInit == InitTrunc /\ [][NextTrunc]_vars

---------------------------------------------------------------------------
(* Properties of torch_to_paddle_mapping (checked under SpecMap). *)

Range(s) == {s[n] : n \in 1..Len(s)}

IsPrefix(p, s) == Len(p) <= Len(s) /\ SubSeq(s, 1, Len(p)) = p

\* 2 + 7*sum(di) + 2*(n-1) + 2
ClaimedLength(d) == 2 + 7 * Sum(d) + 2 * (Len(d) - 1) + 2

\* C1 as stated: for every STAGE_DEPTHS the function accepts, whatever its
\* length n, the mapping has 2 + 7*sum(di) + 2*(n-1) + 2 entries.
C1_LengthForEveryDepths ==
    pc = "mapped" => Len(mapping) = ClaimedLength(depths)

\* C1 amended: for every STAGE_DEPTHS with at least one stage the mapping has
\* 2 + 7*sum(di) + 2*(n-1) + 2 entries, 94 for [2, 2, 6, 2]; for the empty
\* STAGE_DEPTHS it has the 4 fixed entries.
C1_LengthForNonEmptyDepths ==
    pc = "mapped" =>
        /\ Len(depths) >= 1 => Len(mapping) = ClaimedLength(depths)
        /\ Len(depths) = 0 => Len(mapping) = 4
        /\ depths = <<2, 2, 6, 2>> => Len(mapping) = 94

C1_Witness ==
    /\ pc = "mapped"
    /\ depths = <<2, 2, 6, 2>>
    /\ Len(mapping) = 94

\* the entries that name stage s's downsample on either side
DownsampleEntries(s) ==
    {k \in 1..Len(mapping) :
        \E side \in 1..2 :
            /\ Len(mapping[k][side]) >= 3
            /\ mapping[k][side][2] = ToString(s)
            /\ mapping[k][side][3] = "downsample"}

\* the entries of the blocks of stage s
BlockEntries(s) ==
    {k \in 1..Len(mapping) :
        \E side \in 1..2 :
            /\ Len(mapping[k][side]) >= 3
            /\ mapping[k][side][2] = ToString(s)
            /\ mapping[k][side][3] = "blocks"}

\* two downsample entries for every stage but the last, source under
\* layers.{s}.downsample and destination under stages.{s}.downsample
DownsamplePlaces ==
    /\ \A s \in 0..(Len(depths) - 2) :
         /\ Cardinality(DownsampleEntries(s)) = 2
         /\ \A k \in DownsampleEntries(s) :
              /\ IsPrefix(<<"layers", ToString(s), "downsample">>, mapping[k][1])
              /\ IsPrefix(<<"stages", ToString(s), "downsample">>, mapping[k][2])
    /\ \A k \in 1..Len(mapping), side \in 1..2 :
         (Len(mapping[k][side]) >= 3 /\ mapping[k][side][3] = "downsample")
             => \E s \in 0..(Len(depths) - 2) : k \in DownsampleEntries(s)

\* C6 as stated: the downsample entries are placed as above and their prefix
\* roles are inverted relative to the block entries of the same stage, that
\* is the block entries have their source under stages.{s}.blocks and their
\* destination under layers.{s}.blocks.
C6_DownsampleRolesInverted ==
    pc = "mapped" =>
        /\ DownsamplePlaces
        /\ \A s \in 0..(Len(depths) - 2) : \A k \in BlockEntries(s) :
             /\ IsPrefix(<<"stages", ToString(s), "blocks">>, mapping[k][1])
             /\ IsPrefix(<<"layers", ToString(s), "blocks">>, mapping[k][2])

\* C6 amended: the downsample entries are placed as above, none for the last
\* stage, and their prefix roles are the same as those of the block entries
\* of the same stage: source under layers.{s}, destination under stages.{s}.
C6_DownsampleRolesSame ==
    pc = "mapped" =>
        /\ DownsamplePlaces
        /\ \A s \in 0..(Len(depths) - 2) : \A k \in BlockEntries(s) :
             /\ IsPrefix(<<"layers", ToString(s), "blocks">>, mapping[k][1])
             /\ IsPrefix(<<"stages", ToString(s), "blocks">>, mapping[k][2])

C6_Witness ==
    /\ pc = "mapped"
    /\ Len(depths) = 3
    /\ depths[2] = 2
    /\ Cardinality(DownsampleEntries(1)) = 2
    /\ Cardinality(BlockEntries(1)) = 14
    /\ DownsampleEntries(2) = {}

\* the paths of the mapping on one side (1: source, 2: destination)
Paths(side) == {mapping[k][side] : k \in 1..Len(mapping)}

\* the paths with .weight or .bias appended
Suffixed(paths) == {Dot(p, "weight") : p \in paths} \cup {Dot(p, "bias") : p \in paths}

\* the destination keys the copy loop can write for an entry: pd_name when
\* both names are keys, else pd_name.weight and pd_name.bias
write_targets(pd_name) == {pd_name, Dot(pd_name, "weight"), Dot(pd_name, "bias")}

\* C14: the mapping has pairwise distinct source paths and pairwise distinct
\* destination paths, no entry's path is another entry's path with .weight or
\* .bias appended, and so no destination key can be written by two entries
\* of one run of convert.
C14_PathsDistinct ==
    pc = "mapped" =>
        /\ \A side \in 1..2 :
             /\ Cardinality(Paths(side)) = Len(mapping)
             /\ Suffixed(Paths(side)) \cap Paths(side) = {}
        /\ Cardinality(UNION {write_targets(p) : p \in Paths(2)}) = 3 * Len(mapping)

\* a mapping with the same seven leaf names in 24 blocks, and with the
\* downsample entries whose paths end in weight
C14_Witness ==
    /\ pc = "mapped"
    /\ depths = <<2, 2, 18, 2>>
    /\ Cardinality(Paths(1)) = 178
    /\ Cardinality(Paths(2)) = 178
    /\ Cardinality({p \in Paths(2) : Last(p) = "norm1"}) = 24
    /\ Cardinality({p \in Paths(2) : Last(p) = "weight"}) = 3

---------------------------------------------------------------------------
(* Properties of the missing-key lists (checked under Spec). *)

\* key is no path of keys, also with a trailing .weight or .bias stripped
Unmapped(key, keys) ==
    /\ key \notin keys
    /\ EndsWithDot(key, "weight") => Strip(key) \notin keys
    /\ EndsWithDot(key, "bias") => Strip(key) \notin keys

Scanned == pc \in {"copy", "done", "error"}

\* C4: once the missing keys are computed, every key of the destination model
\* that is unmapped among the mapping's destination paths is in
\* missing_keys_pd.
C4_DestinationKeysInMissingPd ==
    Scanned =>
        \A key \in DOMAIN pd_params :
            Unmapped(key, pd_keys(mapping)) => key \in Range(missing_keys_pd)

\* C5: once the missing keys are computed, every key of the source model that
\* is unmapped among the mapping's source paths is in missing_keys_th, also a
\* key with neither suffix.
C5_SourceKeysInMissingTh ==
    Scanned =>
        \A key \in DOMAIN th_params :
            Unmapped(key, th_keys(mapping)) => key \in Range(missing_keys_th)

---------------------------------------------------------------------------
(* Properties of the copy loop (checked under Spec).  After an iteration   *)
(* the entry it took is mapping[i], prev holds pd_params and Len(log) from *)
(* before it, and the log lines after prev.nlog are its _set_value calls;  *)
(* when the iteration raised, it is the last of these calls that raised.   *)

Iterated == pc \in {"copy", "done", "error"} /\ i >= 1

\* the _set_value calls of the latest iteration that wrote their value
Written ==
    {n \in (prev.nlog + 1)..Len(log) : ~(pc = "error" /\ n = Len(log))}

\* element [r][c] of a 2-D tensor
At(t, r, c) == t.data[(r - 1) * t.shape[2] + c]

IsTransposeOf(dst, src) ==
    /\ dst.shape = <<src.shape[2], src.shape[1]>>
    /\ \A r \in 1..src.shape[1], c \in 1..src.shape[2] : At(dst, c, r) = At(src, r, c)

\* C2: every copy of a 2-D source tensor of shape (a, b) whose key does not
\* end in relative_position_bias_table leaves in the destination slot a value
\* of shape (b, a) with dst[j][i] = src[i][j], whether the key is the entry's
\* name or the name with .weight.
C2_TwoDimCopiedTransposed ==
    Iterated =>
        \A n \in Written :
            LET src == th_params[log[n][1]] IN
            (Len(src.shape) = 2 /\ ~EndsWithBiasTable(log[n][1]))
                => IsTransposeOf(pd_params[log[n][2]], src)

\* a run in which a 2-D tensor that is not square was copied under the
\* entry's own name and another under the name with .weight
C2_Witness ==
    /\ pc = "done"
    /\ run = 1
    /\ \E n1 \in 1..Len(log), n2 \in 1..Len(log) :
         /\ log[n1][1] \in th_keys(mapping)
         /\ ~EndsWithBiasTable(log[n1][1])
         /\ th_params[log[n1][1]].shape = <<Rows, Cols>>
         /\ IsTransposeOf(pd_params[log[n1][2]], th_params[log[n1][1]])
         /\ EndsWithDot(log[n2][1], "weight")
         /\ Strip(log[n2][1]) \in th_keys(mapping)
         /\ th_params[log[n2][1]].shape = <<Cols, Rows>>
         /\ IsTransposeOf(pd_params[log[n2][2]], th_params[log[n2][1]])
         /\ pd_init[log[n2][2]] # pd_params[log[n2][2]]

\* C3: an entry whose source key ends in relative_position_bias_table and is a
\* key of the source model, with its destination a key of the destination
\* model, is copied whenever the two shapes agree, and every such copy leaves
\* the destination equal to the source, axis for axis, also when it is 2-D.
C3_BiasTableCopiedUntransposed ==
    Iterated =>
        LET th_name == mapping[i][1]
            pd_name == mapping[i][2]
        IN  (/\ EndsWithBiasTable(th_name)
             /\ th_name \in DOMAIN th_params
             /\ pd_name \in DOMAIN pd_params)
            => /\ prev.params[pd_name].shape = th_params[th_name].shape
                     => pc # "error" /\ Written # {}
               /\ \A n \in Written :
                     /\ log[n] = <<th_name, pd_name>>
                     /\ pd_params[pd_name] = th_params[th_name]

C3_Witness ==
    /\ Iterated
    /\ pc = "copy"
    /\ run = 1
    /\ EndsWithBiasTable(mapping[i][1])
    /\ mapping[i][1] \in DOMAIN th_params
    /\ mapping[i][2] \in DOMAIN pd_params
    /\ Written # {}
    /\ th_params[mapping[i][1]].shape = <<Rows, Cols>>
    /\ Rows # Cols
    /\ pd_params[mapping[i][2]] = th_params[mapping[i][1]]
    /\ prev.params[mapping[i][2]] # th_params[mapping[i][1]]

\* C7: a second call of convert on the same models leaves the destination in
\* the state the first call left it in, at every point of the second call.
C7_CopyIdempotent ==
    run >= 2 => pd_params = pd_first

C7_Witness ==
    /\ run = 2
    /\ pc = "done"
    /\ Len(log) >= 2
    /\ pd_params = pd_first
    /\ pd_params # pd_init

\* the destination keys that entry k of the mapping resolves to
ResolvedBy(k) ==
    LET th_name == mapping[k][1]
        pd_name == mapping[k][2]
    IN  IF th_name \in DOMAIN th_init /\ pd_name \in DOMAIN pd_init
        THEN {pd_name}
        ELSE {Dot(pd_name, sfx) : sfx \in
                 {x \in {"weight", "bias"} :
                     /\ Dot(th_name, x) \in DOMAIN th_init
                     /\ Dot(pd_name, x) \in DOMAIN pd_init}}

\* the destination keys that some mapping entry resolves to
ResolvedKeys == UNION {ResolvedBy(k) : k \in 1..Len(mapping)}

\* C8: convert leaves every source tensor as it was, adds no key to and
\* removes none from the destination, and leaves every destination tensor
\* that no mapping entry resolves to as it was.
C8_OnlyResolvedDestinationsChange ==
    /\ th_params = th_init
    /\ DOMAIN pd_params = DOMAIN pd_init
    /\ \A key \in DOMAIN pd_init \ ResolvedKeys : pd_params[key] = pd_init[key]

\* a finished call that wrote some tensors and left alone the .weight of an
\* entry whose source has no .weight
C8_Witness ==
    /\ pc = "done"
    /\ pd_params # pd_init
    /\ \E k \in 1..Len(mapping) :
         /\ Dot(mapping[k][2], "weight") \in DOMAIN pd_params \ ResolvedKeys
         /\ Dot(mapping[k][2], "bias") \in ResolvedKeys
         /\ pd_params[Dot(mapping[k][2], "bias")] # pd_init[Dot(mapping[k][2], "bias")]

Both(th_name, pd_name) ==
    th_name \in DOMAIN th_params /\ pd_name \in DOMAIN pd_params

\* the latest iteration made the call _set_value(th_name, pd_name)
Called(th_name, pd_name) ==
    \E n \in (prev.nlog + 1)..Len(log) : log[n] = <<th_name, pd_name>>

Untouched(pd_name) ==
    pd_name \in DOMAIN pd_params => pd_params[pd_name] = prev.params[pd_name]

Unresolved(th_name, pd_name) ==
    /\ ~Both(th_name, pd_name)
    /\ ~Both(Dot(th_name, "weight"), Dot(pd_name, "weight"))
    /\ ~Both(Dot(th_name, "bias"), Dot(pd_name, "bias"))

\* C10: an iteration on an entry that resolves to no pair of keys raises
\* nothing, prints no copy, leaves the destination as it was and leaves the
\* loop going; an exception of convert comes from a _set_value call only.
C10_UnresolvedEntrySkipped ==
    Iterated =>
        /\ Unresolved(mapping[i][1], mapping[i][2]) =>
              /\ pc # "error"
              /\ pd_params = prev.params
              /\ Len(log) = prev.nlog
        /\ pc = "error" => Len(log) > prev.nlog

\* a call that completed although it skipped an entry with keys on one side
\* only, copying the entries after it
C10_Witness ==
    /\ pc = "done"
    /\ run = 1
    /\ \E k \in 1..Len(mapping) :
         /\ Unresolved(mapping[k][1], mapping[k][2])
         /\ Dot(mapping[k][1], "weight") \in DOMAIN th_params
         /\ k < Len(mapping)
         /\ \E n \in 1..Len(log) : log[n][1] = Dot(mapping[Len(mapping)][1], "weight")

---------------------------------------------------------------------------
(* Properties of main (checked under SpecMain). *)

\* the places of <<model, step>> in events
Places(model, step) == {p \in 1..Len(events) : events[p] = <<model, step>>}

\* C11: a model's checkpoint is written only after convert has run for it and
\* the comparison of the outputs has passed after that; when the comparison
\* fails main is left at once: no checkpoint is written for that model, and
\* no later model is built, converted or saved.
C11_AgreementCheckIsHardGate ==
    /\ saved = {k \in 1..model_count : Places(k, "save") # {}}
    /\ \A k \in saved : \A p \in Places(k, "save") :
         \E q \in Places(k, "convert"), r \in Places(k, "check_ok") : q < r /\ r < p
    /\ \A k \in 1..model_count :
         Places(k, "check_failed") # {} =>
             /\ main_pc = "aborted"
             /\ model_idx = k
             /\ k \notin saved
             /\ events[Len(events)] = <<k, "check_failed">>
    /\ main_pc = "aborted" => ~ENABLED NextMain

\* the first model is saved and the comparison fails for the second of three
C11_Witness ==
    /\ main_pc = "aborted"
    /\ model_count > model_idx
    /\ model_idx = 2
    /\ saved = {1}
    /\ Places(2, "check_failed") # {}

---------------------------------------------------------------------------
(* Properties of the order of the entries (checked under SpecOrder). *)

---------------------------------------------------------------------------
(* Properties of trunc_normal_ (checked under SpecInit). *)

\* C13 as stated: after the call the tensor the caller passed holds the
\* values that trunc_normal_ returns, every one of them within [a, b].
C13_FillsCallersTensor ==
    tn_pc = "returned" =>
        /\ tensor_arg = tn_ret
        /\ \A k \in 1..Len(tensor_arg) :
             cutoff.a <= tensor_arg[k] /\ tensor_arg[k] <= cutoff.b

===========================================================================
